---- MODULE Spec2Model ----
(***************************************************************************)
(* Model of src/lib/scroll-rise-colors.ts: the three motions FillMotion,   *)
(* BackgroundLinearGradientMotion and SVGLinearGradientMotion, their       *)
(* constructors and their make operations writing into an element.         *)
(*                                                                         *)
(* Numbers.  The source's values are JavaScript numbers.  A number v is    *)
(* represented by the integer 2*v (fixed point with one binary digit), so  *)
(* that values such as an alpha of 0.5 are in the model.  The fraction     *)
(* d = scrollPos / frame.length() is kept as the pair (num, den) and the   *)
(* arithmetic is exact; on the scroll positions, frame lengths and values  *)
(* enumerated here the IEEE-754 evaluation of the source gives the same    *)
(* integers.  frame.length() is positive.  Strings are TLA+ strings built  *)
(* as the template literals build them.                                    *)
(***************************************************************************)
EXTENDS Integers, Sequences, FiniteSets, TLC

VARIABLES
    motion,   \* the motion instance obtained from a constructor, or NoMotion
    element,  \* the HTMLElement the host passes as the sink
    last,     \* <<scrollPos, length>> of the latest make given the element
    arg,      \* what the latest make call received: "element" or "null"
    ops,      \* the mutations of the element done by the latest make call
    thrown    \* the error thrown by the latest operation, "" when none

vars == <<motion, element, last, arg, ops, thrown>>

\* ------------------------------------------------------------------ bounds

MaxStops == 2

MaxPos == 4

\* ------------------------------------------------------------------ numbers

\* the JavaScript number n, n an integer
Num(n) == 2 * n

\* the JavaScript number n + 0.5
NumAndHalf(n) == 2 * n + 1

IsInteger(v) == v % 2 = 0

Abs(n) == IF n < 0 THEN -n ELSE n

\* `${v}` of a template literal: the decimal numeral of the number
Str(v) ==
    IF IsInteger(v)
    THEN ToString(v \div 2)
    ELSE (IF v < 0 THEN "-" ELSE "") \o ToString(Abs(v) \div 2) \o ".5"

\* scrollPos / frame.length(), frame.length() > 0
Fraction(scrollPos, length) == [num |-> scrollPos, den |-> length]

\* d < 0
IsNegative(d) == d.num < 0

\* d > 1
IsAboveOne(d) == d.num > d.den

\* Util.castToInt(num / den), den > 0: the integer part, toward zero
castToInt(num, den) ==
    IF num >= 0 THEN Num(num \div den) ELSE Num(-((-num) \div den))

\* calcValue with start and end exchanged
calcValueSwapped(start, end, d) ==
    castToInt(end * d.den + (start - end) * d.num, 2 * d.den)

\* calcValue with Math.round in the place of Util.castToInt
calcValueRound(start, end, d) ==
    Num((2 * (start * d.den + (end - start) * d.num) + 2 * d.den) \div (4 * d.den))

\* calcValue with (start - end) in the place of (end - start)
calcValueSignSlip(start, end, d) ==
    castToInt(start * d.den + (start - end) * d.num, 2 * d.den)

\* (start, end) => Util.castToInt(start + (end - start) * d)
calcValue(start, end, d) ==
    castToInt(start * d.den + (end - start) * d.num, 2 * d.den)

\* ------------------------------------------------------------------ values

RGBA(r, g, b, a) == [r |-> r, g |-> g, b |-> b, a |-> a]

Black == RGBA(Num(0), Num(0), Num(0), Num(1))

Green == RGBA(Num(100), Num(200), Num(50), Num(1))

Translucent == RGBA(Num(255), Num(10), Num(0), NumAndHalf(0))

Colors == {Black, Green, Translucent}

LinearColorStop(lengthPercentage, color) ==
    [lengthPercentage |-> lengthPercentage, color |-> color]

ColorStops ==
    {LinearColorStop(Num(100), Green), LinearColorStop(NumAndHalf(12), Translucent)}

Angles == {Num(-45), Num(90)}

RECURSIVE StopLists(_)
StopLists(n) ==
    IF n = 0 THEN {<<>>}
    ELSE StopLists(n - 1) \cup
         {Append(l, s) : l \in {m \in StopLists(n - 1) : Len(m) = n - 1}, s \in ColorStops}

LinearGradient(angle, stopList) == [angle |-> angle, stopList |-> stopList]

Gradients == {LinearGradient(a, l) : a \in Angles, l \in StopLists(MaxStops)}

\* the <<scrollPos, frame.length()>> pairs make is called with
CallInputs ==
    {<<scrollPos, 4>> : scrollPos \in -1 .. MaxPos}
        \cup {<<scrollPos, 100>> : scrollPos \in {-50, 25, 95, 100, 150}}

NoMotion == [name |-> "none"]

NoCall == <<>>

NoError == ""

\* ------------------------------------------------------------------ formatting

\* makeRGBA(color)
makeRGBA(color) ==
    "rgba(" \o Str(color.r) \o ", " \o Str(color.g) \o ", " \o Str(color.b)
        \o ", " \o Str(color.a) \o ")"

RECURSIVE Join(_, _)
\* Array.prototype.join(sep)
Join(strings, sep) ==
    IF Len(strings) = 0 THEN ""
    ELSE IF Len(strings) = 1 THEN strings[1]
    ELSE strings[1] \o sep \o Join(Tail(strings), sep)

\* makeStopList(stopList)
makeStopList(stopList) ==
    Join([i \in 1 .. Len(stopList) |->
            makeRGBA(stopList[i].color) \o " " \o Str(stopList[i].lengthPercentage) \o "%"],
         ", ")

\* makeBackgroundStyle(gradient)
makeBackgroundStyle(gradient) ==
    "linear-gradient(" \o Str(gradient.angle) \o "deg, "
        \o makeStopList(gradient.stopList) \o ")"

\* ------------------------------------------------------------------ interpolation

\* FillMotion.calcRGBA(start, end, delta)
calcRGBA(start, end, delta) ==
    [r |-> calcValue(start.r, end.r, delta),
     g |-> calcValue(start.g, end.g, delta),
     b |-> calcValue(start.b, end.b, delta),
     a |-> calcValue(start.a, end.a, delta)]

\* mapStopList pairing stop index of start with the mirrored stop of end
mapStopListMirrored(start, end, d) ==
    [index \in 1 .. Len(start.stopList) |->
        LET other == end.stopList[Len(end.stopList) + 1 - index]
            item == start.stopList[index]
        IN  [lengthPercentage |->
                calcValue(item.lengthPercentage, other.lengthPercentage, d),
             color |-> calcRGBA(item.color, other.color, d)]]

\* this.start.stopList.map((item, index) => ...) of both gradient motions
mapStopList(start, end, d) ==
    [index \in 1 .. Len(start.stopList) |->
        [lengthPercentage |->
            calcValue(start.stopList[index].lengthPercentage,
                      end.stopList[index].lengthPercentage, d),
         color |->
            [r |-> calcValue(start.stopList[index].color.r, end.stopList[index].color.r, d),
             g |-> calcValue(start.stopList[index].color.g, end.stopList[index].color.g, d),
             b |-> calcValue(start.stopList[index].color.b, end.stopList[index].color.b, d),
             a |-> calcValue(start.stopList[index].color.a, end.stopList[index].color.a, d)]]]

\* { stopList, angle: calcValue(this.start.angle, this.end.angle) }
interpolatedGradient(start, end, d) ==
    [stopList |-> mapStopList(start, end, d),
     angle |-> calcValue(start.angle, end.angle, d)]

\* ------------------------------------------------------------------ the element

\* a <stop> element created by document.createElementNS with its two attributes
StopElement(stop) ==
    [tag |-> "stop",
     offset |-> Str(stop.lengthPercentage) \o "%",
     stopColor |-> makeRGBA(stop.color)]

StaleChild == [tag |-> "stop", offset |-> "7%", stopColor |-> "red"]

\* element.style[property] = value, skipped when the value is already there
assignStyleIfChanged(container, property, value) ==
    IF container[property] = value
    THEN [container |-> container, ops |-> <<>>]
    ELSE [container |-> [container EXCEPT ![property] = value],
          ops |-> <<"style." \o property>>]

\* element.style.fill = value, element.style.background = value
assignStyle(container, property, value) ==
    [container |-> [container EXCEPT ![property] = value],
     ops |-> <<"style." \o property>>]

RECURSIVE appendStopsPrepend(_, _)
\* the loop with container.prepend in the place of container.append
appendStopsPrepend(stopList, state) ==
    IF Len(stopList) = 0 THEN state
    ELSE appendStopsPrepend(
            Tail(stopList),
            [container |->
                [state.container EXCEPT
                    !.children = <<StopElement(Head(stopList))>> \o @],
             ops |-> Append(state.ops, "append")])

RECURSIVE appendStops(_, _)
\* for (let stop of gradient.stopList) { ...; container.append(stopElement) }
appendStops(stopList, state) ==
    IF Len(stopList) = 0 THEN state
    ELSE appendStops(
            Tail(stopList),
            [container |->
                [state.container EXCEPT
                    !.children = Append(@, StopElement(Head(stopList)))],
             ops |-> Append(state.ops, "append")])

\* defineElement without container.innerHTML = ''
defineElementNoClear(gradient, container) ==
    appendStops(
        gradient.stopList,
        [container |->
            [container EXCEPT
                !.gradientTransform = "rotate(" \o Str(gradient.angle) \o ")"],
         ops |-> <<"setAttribute gradientTransform">>])

\* SVGLinearGradientMotion.defineElement(gradient, container): the container
\* after the call and the mutations done to it
defineElement(gradient, container) ==
    appendStops(
        gradient.stopList,
        [container |->
            [container EXCEPT
                !.gradientTransform = "rotate(" \o Str(gradient.angle) \o ")",
                !.children = <<>>],
         ops |-> <<"setAttribute gradientTransform", "innerHTML">>])

\* ------------------------------------------------------------------ constructors

\* the constructor without its check
lengthsDifferNever(data) == FALSE

\* this.start.stopList.length !== this.end.stopList.length
lengthsDiffer(data) == Len(data.start.stopList) # Len(data.end.stopList)

ErrorMessage(name) == "Stop-list lengths of linear gradients are not equal in " \o name

\* constructor of a gradient motion: throws, or gives the instance
NewGradientMotion(name, data) ==
    /\ IF lengthsDiffer(data)
       THEN /\ thrown' = ErrorMessage(name)
            /\ UNCHANGED motion
       ELSE /\ motion' = [name |-> name, start |-> data.start, end |-> data.end]
            /\ thrown' = NoError
    /\ UNCHANGED <<element, last, arg, ops>>

NewBackgroundLinearGradientMotion ==
    /\ motion = NoMotion
    /\ \E start \in Gradients, end \in Gradients :
        NewGradientMotion("BackgroundLinearGradientMotion", [start |-> start, end |-> end])

NewSVGLinearGradientMotion ==
    /\ motion = NoMotion
    /\ \E start \in Gradients, end \in Gradients :
        NewGradientMotion("SVGLinearGradientMotion", [start |-> start, end |-> end])

NewFillMotion ==
    /\ motion = NoMotion
    /\ \E start \in Colors, end \in Colors :
        /\ motion' = [name |-> "FillMotion", start |-> start, end |-> end]
        /\ thrown' = NoError
        /\ UNCHANGED <<element, last, arg, ops>>

\* ------------------------------------------------------------------ make

\* make without the if (element) guard: the write to null throws
makeWithoutGuard ==
    /\ arg' = "null"
    /\ ops' = <<>>
    /\ thrown' = "TypeError: Cannot read properties of null"
    /\ UNCHANGED <<motion, element, last>>

\* if (element) { ... } with element absent: nothing is done
makeWithoutElement ==
    /\ arg' = "null"
    /\ ops' = <<>>
    /\ thrown' = NoError
    /\ UNCHANGED <<motion, element, last>>

\* the colour FillMotion.make formats
resolvedColor(d) ==
    IF IsNegative(d) THEN motion.start
    ELSE IF IsAboveOne(d) THEN motion.end
    ELSE calcRGBA(motion.start, motion.end, d)

\* the value FillMotion.make commits
fillValue(d) == makeRGBA(resolvedColor(d))

\* resolvedGradient clamping d into [0, 1] and interpolating on every path
resolvedGradientNoShortCircuit(d) ==
    interpolatedGradient(motion.start, motion.end,
        IF IsNegative(d) THEN Fraction(0, 1)
        ELSE IF IsAboveOne(d) THEN Fraction(1, 1) ELSE d)

\* the gradient a gradient motion's make renders
resolvedGradient(d) ==
    IF IsNegative(d) THEN motion.start
    ELSE IF IsAboveOne(d) THEN motion.end
    ELSE interpolatedGradient(motion.start, motion.end, d)

FillMake(scrollPos, length, present) ==
    /\ motion.name = "FillMotion"
    /\ IF present
       THEN LET done == assignStyle(element, "fill", fillValue(Fraction(scrollPos, length)))
            IN  /\ element' = done.container
                /\ ops' = done.ops
                /\ last' = <<scrollPos, length>>
                /\ arg' = "element"
                /\ thrown' = NoError
                /\ UNCHANGED motion
       ELSE makeWithoutElement

BackgroundMake(scrollPos, length, present) ==
    /\ motion.name = "BackgroundLinearGradientMotion"
    /\ IF present
       THEN LET done ==
                    assignStyle(element, "background",
                        makeBackgroundStyle(resolvedGradient(Fraction(scrollPos, length))))
            IN  /\ element' = done.container
                /\ ops' = done.ops
                /\ last' = <<scrollPos, length>>
                /\ arg' = "element"
                /\ thrown' = NoError
                /\ UNCHANGED motion
       ELSE makeWithoutElement

SVGMake(scrollPos, length, present) ==
    /\ motion.name = "SVGLinearGradientMotion"
    /\ IF present
       THEN LET done == defineElement(resolvedGradient(Fraction(scrollPos, length)), element)
            IN  /\ element' = done.container
                /\ ops' = done.ops
                /\ last' = <<scrollPos, length>>
                /\ arg' = "element"
                /\ thrown' = NoError
                /\ UNCHANGED motion
       ELSE makeWithoutElement

Make ==
    \E call \in CallInputs, present \in BOOLEAN :
        \/ FillMake(call[1], call[2], present)
        \/ BackgroundMake(call[1], call[2], present)
        \/ SVGMake(call[1], call[2], present)

\* ------------------------------------------------------------------ specification

\* an element no motion has written to, with the children it holds
UntouchedElement(children) ==
    [fill |-> "", background |-> "", gradientTransform |-> "", children |-> children]

InitialElements ==
    {UntouchedElement(c) : c \in {<<>>, <<StaleChild, StaleChild, StaleChild>>}}

Init ==
    /\ motion = NoMotion
    /\ element \in InitialElements
    /\ last = NoCall
    /\ arg = "none"
    /\ ops = <<>>
    /\ thrown = NoError

Next ==
    \/ NewFillMotion
    \/ NewBackgroundLinearGradientMotion
    \/ NewSVGLinearGradientMotion
    \/ Make

Spec == Init /\ [][Next]_vars

\* ------------------------------------------------------------------ properties

\* a make call has been given the element
Called == last # NoCall

IsGradientMotion ==
    motion.name \in {"BackgroundLinearGradientMotion", "SVGLinearGradientMotion"}

\* what the motion has committed: the part of the element it writes
Sink ==
    CASE motion.name = "FillMotion" -> element.fill
      [] motion.name = "BackgroundLinearGradientMotion" -> element.background
      [] motion.name = "SVGLinearGradientMotion" ->
            <<element.gradientTransform, element.children>>

\* the rendering of a colour or gradient value by the motion's kind
Rendering(value) ==
    CASE motion.name = "FillMotion" ->
            "rgba(" \o Str(value.r) \o ", " \o Str(value.g) \o ", " \o Str(value.b)
                \o ", " \o Str(value.a) \o ")"
      [] motion.name = "BackgroundLinearGradientMotion" -> makeBackgroundStyle(value)
      [] motion.name = "SVGLinearGradientMotion" ->
            <<"rotate(" \o Str(value.angle) \o ")",
              [i \in 1 .. Len(value.stopList) |-> StopElement(value.stopList[i])]>>

\* the fraction of the latest call is below 0, above 1, or within [0, 1]
Below == last[1] < 0

Above == last[1] > last[2]

Within == ~Below /\ ~Above

\* n is num/den cut toward zero (den > 0)
IsTruncation(n, num, den) ==
    /\ num >= 0 => (n * den <= num /\ num < (n + 1) * den)
    /\ num <= 0 => ((n - 1) * den < num /\ num <= n * den)

\* start + (end - start) * fraction of the latest call, cut toward zero
Truncated(start, end) ==
    LET num == start * last[2] + (end - start) * last[1]
        den == 2 * last[2]
        q == num \div den
    IN  Num(CHOOSE n \in {q - 1, q, q + 1} : IsTruncation(n, num, den))

TruncatedRGBA(start, end) ==
    [r |-> Truncated(start.r, end.r), g |-> Truncated(start.g, end.g),
     b |-> Truncated(start.b, end.b), a |-> Truncated(start.a, end.a)]

\* the stop made of one stop of start and one stop of end, and of nothing else
TruncatedStop(startStop, endStop) ==
    [lengthPercentage |-> Truncated(startStop.lengthPercentage, endStop.lengthPercentage),
     color |-> TruncatedRGBA(startStop.color, endStop.color)]

TruncatedValue(start, end) ==
    IF motion.name = "FillMotion"
    THEN TruncatedRGBA(start, end)
    ELSE [angle |-> Truncated(start.angle, end.angle),
          stopList |-> [i \in 1 .. Len(start.stopList) |->
                            TruncatedStop(start.stopList[i], end.stopList[i])]]

\* the scalars of a colour or gradient value, in a fixed order
ScalarsOfRGBA(color) == <<color.r, color.g, color.b, color.a>>

RECURSIVE ScalarsOfStops(_)
ScalarsOfStops(stopList) ==
    IF Len(stopList) = 0 THEN <<>>
    ELSE <<Head(stopList).lengthPercentage>> \o ScalarsOfRGBA(Head(stopList).color)
            \o ScalarsOfStops(Tail(stopList))

Scalars(value) ==
    IF motion.name = "FillMotion"
    THEN ScalarsOfRGBA(value)
    ELSE <<value.angle>> \o ScalarsOfStops(value.stopList)

AllIntegers(value) == \A i \in 1 .. Len(Scalars(value)) : IsInteger(Scalars(value)[i])

\* C1: when the fraction of the latest call is below 0 the sink holds the start
\* value as given, when it is above 1 the end value as given: no channel, stop
\* position or angle is interpolated or truncated.
C1_VerbatimOutsideRange ==
    Called =>
        /\ Below => Sink = Rendering(motion.start)
        /\ Above => Sink = Rendering(motion.end)
        /\ (motion.name = "FillMotion" /\ motion.end = Green /\ last = <<150, 100>>)
                => element.fill = "rgba(100, 200, 50, 1)"

C1_Witness ==
    /\ Called /\ Above
    /\ ~AllIntegers(motion.end)
    /\ Sink = Rendering(motion.end)

\* C2: a gradient motion exists only with start and end stop lists of equal
\* length; a constructor that threw left no instance, so no make was called.
C2_EqualStopListLengths ==
    /\ IsGradientMotion => Len(motion.start.stopList) = Len(motion.end.stopList)
    /\ thrown # NoError =>
            /\ motion = NoMotion /\ arg = "none" /\ last = NoCall
            /\ thrown \in {ErrorMessage("BackgroundLinearGradientMotion"),
                           ErrorMessage("SVGLinearGradientMotion")}

C2_Witness ==
    /\ thrown = "Stop-list lengths of linear gradients are not equal in SVGLinearGradientMotion"
    /\ motion = NoMotion

\* C3: a make call given no element writes nothing, throws nothing and leaves
\* the element and the motion as they were.
C3_NoElementNoWrite ==
    [][arg' = "null" =>
            /\ element' = element
            /\ motion' = motion
            /\ last' = last
            /\ ops' = <<>>
            /\ thrown' = NoError]_vars

C3_Witness ==
    /\ arg = "null"
    /\ Called
    /\ motion.name = "SVGLinearGradientMotion"
    /\ Len(element.children) > 0

\* C4 as stated: at fraction 0 the sink holds the start value exactly and at
\* fraction 1 the end value exactly, for every start and end.
C4_BoundaryIsEndpoint ==
    Called =>
        /\ last[1] = 0 => Sink = Rendering(motion.start)
        /\ last[1] = last[2] => Sink = Rendering(motion.end)

\* C4 amended: at fraction 0 (fraction 1) the sink holds the start (end) value
\* with every scalar cut toward zero; hence the start (end) value exactly when
\* all its scalars are integers.
C4_BoundaryIsTruncatedEndpoint ==
    Called =>
        /\ last[1] = 0 =>
            /\ Sink = Rendering(TruncatedValue(motion.start, motion.start))
            /\ AllIntegers(motion.start) => Sink = Rendering(motion.start)
        /\ last[1] = last[2] =>
            /\ Sink = Rendering(TruncatedValue(motion.end, motion.end))
            /\ AllIntegers(motion.end) => Sink = Rendering(motion.end)

C4_Witness ==
    /\ Called
    /\ last[1] = last[2]
    /\ AllIntegers(motion.end)
    /\ ~AllIntegers(motion.start)
    /\ motion.start # motion.end
    /\ Sink = Rendering(motion.end)

\* C5: for a fraction within [0, 1] every scalar of the committed value is
\* start + (end - start) * fraction cut toward zero.
C5_TruncationTowardZero ==
    (Called /\ Within) =>
        /\ Sink = Rendering(TruncatedValue(motion.start, motion.end))
        /\ (motion.name = "FillMotion" /\ motion.start = Black /\ motion.end = Green
                /\ last = <<25, 100>>) => element.fill = "rgba(25, 50, 12, 1)"
        /\ (motion.name = "FillMotion" /\ motion.start = Black /\ motion.end = Translucent
                /\ last = <<25, 100>>) => element.fill = "rgba(63, 2, 0, 0)"
        /\ (motion.name = "FillMotion" /\ motion.start = Translucent /\ motion.end = Black
                /\ last = <<95, 100>>) => element.fill = "rgba(12, 0, 0, 0)"

C5_Witness ==
    /\ Called
    /\ motion.name = "FillMotion" /\ motion.start = Black /\ motion.end = Green
    /\ last = <<25, 100>>
    /\ element.fill = "rgba(25, 50, 12, 1)"

\* C6: for a gradient motion and a fraction within [0, 1] the committed
\* gradient has as many stops as start, in start's order, and its i-th stop is
\* made of start.stopList[i] and end.stopList[i] alone.
C6_StopsPairedByIndex ==
    (Called /\ Within /\ IsGradientMotion) =>
        LET n == Len(motion.start.stopList)
            stop(i) == TruncatedStop(motion.start.stopList[i], motion.end.stopList[i])
            angle == Truncated(motion.start.angle, motion.end.angle)
        IN  IF motion.name = "SVGLinearGradientMotion"
            THEN /\ Len(element.children) = n
                 /\ \A i \in 1 .. n : element.children[i] = StopElement(stop(i))
            ELSE element.background =
                    "linear-gradient(" \o Str(angle) \o "deg, "
                        \o Join([i \in 1 .. n |->
                                    makeRGBA(stop(i).color) \o " "
                                        \o Str(stop(i).lengthPercentage) \o "%"], ", ")
                        \o ")"

C6_Witness ==
    /\ Called /\ Within /\ last[1] > 0 /\ last[1] < last[2]
    /\ motion.name = "SVGLinearGradientMotion"
    /\ Len(motion.start.stopList) = 2
    /\ motion.start.stopList[1] # motion.start.stopList[2]
    /\ motion.end.stopList = <<motion.start.stopList[2], motion.start.stopList[1]>>
    /\ Len(element.children) = 2

\* the mutations SVGLinearGradientMotion.defineElement does for n stops
DefineElementOps(n) ==
    <<"setAttribute gradientTransform", "innerHTML">> \o [i \in 1 .. n |-> "append"]

\* C7 as stated: a make call given the element does exactly one write to it.
C7_ExactlyOneWrite == arg = "element" => Len(ops) = 1

\* C7 amended: a make call given the element does, on every path, exactly one
\* assignment of style.fill (FillMotion) or of style.background
\* (BackgroundLinearGradientMotion), the same value again included;
\* SVGLinearGradientMotion does one defineElement pass, which is one
\* setAttribute, one reset of innerHTML and one append per stop.
C7_WritesPerCall ==
    arg = "element" =>
        CASE motion.name = "FillMotion" -> ops = <<"style.fill">>
          [] motion.name = "BackgroundLinearGradientMotion" -> ops = <<"style.background">>
          [] motion.name = "SVGLinearGradientMotion" ->
                ops = DefineElementOps(Len(motion.start.stopList))

C7_Witness ==
    /\ arg = "element"
    /\ motion.name = "SVGLinearGradientMotion"
    /\ Len(motion.start.stopList) = 2
    /\ Len(ops) = 4

\* the element after one make call with the inputs of the latest call, made
\* on the element e
AfterOneCall(e) ==
    LET d == Fraction(last[1], last[2])
    IN  CASE motion.name = "FillMotion" -> [e EXCEPT !.fill = fillValue(d)]
          [] motion.name = "BackgroundLinearGradientMotion" ->
                [e EXCEPT !.background = makeBackgroundStyle(resolvedGradient(d))]
          [] motion.name = "SVGLinearGradientMotion" ->
                [e EXCEPT
                    !.gradientTransform = Rendering(resolvedGradient(d))[1],
                    !.children = Rendering(resolvedGradient(d))[2]]

\* C8: after any sequence of make calls the element is what one call with the
\* latest (scrollPos, frame length) makes of an untouched element: earlier
\* calls and the element's earlier content leave no trace, and repeating the
\* latest call changes nothing.
C8_DependsOnLatestCallOnly ==
    Called => \E e \in InitialElements :
        /\ element = AfterOneCall(e)
        /\ Sink = (CASE motion.name = "FillMotion" -> AfterOneCall(UntouchedElement(<<>>)).fill
                     [] motion.name = "BackgroundLinearGradientMotion" ->
                            AfterOneCall(UntouchedElement(<<>>)).background
                     [] motion.name = "SVGLinearGradientMotion" ->
                            <<AfterOneCall(UntouchedElement(<<>>)).gradientTransform,
                              AfterOneCall(UntouchedElement(<<>>)).children>>)

C8_Witness ==
    /\ Called
    /\ arg = "null"
    /\ motion.name = "BackgroundLinearGradientMotion"
    /\ Len(element.children) = 3
    /\ element.background # ""

\* C9: after a make call of SVGLinearGradientMotion given the container, the
\* container holds one stop child per stop of the gradient rendered last and
\* nothing else, in stop-list order, child i with offset lengthPercentage_i %
\* and stop-color the rgba text of stop i, and gradientTransform is rotate(angle).
C9_ContainerHoldsLatestGradient ==
    (Called /\ motion.name = "SVGLinearGradientMotion") =>
        LET gradient == resolvedGradient(Fraction(last[1], last[2]))
        IN  /\ Len(element.children) = Len(gradient.stopList)
            /\ Len(gradient.stopList) = Len(motion.start.stopList)
            /\ \A i \in 1 .. Len(gradient.stopList) :
                    /\ element.children[i].tag = "stop"
                    /\ element.children[i].offset =
                            Str(gradient.stopList[i].lengthPercentage) \o "%"
                    /\ element.children[i].stopColor = makeRGBA(gradient.stopList[i].color)
            /\ element.gradientTransform = "rotate(" \o Str(gradient.angle) \o ")"

C9_Witness ==
    /\ Called
    /\ motion.name = "SVGLinearGradientMotion"
    /\ Len(element.children) = 2
    /\ element.children[1] # element.children[2]
    /\ element.gradientTransform = "rotate(-11)"

Min(a, b) == IF a < b THEN a ELSE b

Max(a, b) == IF a < b THEN b ELSE a

\* the colour or gradient value the latest call rendered
Resolved ==
    IF motion.name = "FillMotion"
    THEN resolvedColor(Fraction(last[1], last[2]))
    ELSE resolvedGradient(Fraction(last[1], last[2]))

\* C10: every scalar committed by make whose start and end values are integers
\* lies between the smaller and the larger of the two, on every path.
C10_WithinEndpoints ==
    Called =>
        /\ Sink = Rendering(Resolved)
        /\ Len(Scalars(Resolved)) = Len(Scalars(motion.start))
        /\ \A i \in 1 .. Len(Scalars(Resolved)) :
                LET start == Scalars(motion.start)[i]
                    end == Scalars(motion.end)[i]
                    value == Scalars(Resolved)[i]
                IN  (IsInteger(start) /\ IsInteger(end)) =>
                        (Min(start, end) <= value /\ value <= Max(start, end))

C10_Witness ==
    /\ Called /\ Within /\ last[1] > 0 /\ last[1] < last[2]
    /\ IsGradientMotion
    /\ Len(motion.start.stopList) = 2
    /\ AllIntegers(motion.start) /\ AllIntegers(motion.end)
    /\ motion.start.angle > motion.end.angle
    /\ Sink = Rendering(Resolved)

====
